---- MODULE Spec2Model ----
(***************************************************************************)
(* The WTHOR database codec of wthor-rs: the four file kinds Jou, Trn, Wtb *)
(* and Wtd, their read / write / size methods (src/src/lib.rs) and the     *)
(* slice primitives they are built on (src/src/slice.rs).                  *)
(*                                                                         *)
(* A byte buffer is a sequence of numbers in 0..255; the byte the code     *)
(* calls bytes[i] is the element i + 1 of the sequence.  A `&mut [u8]`     *)
(* that the code writes through is modelled by the buffer after the call.  *)
(* usize is taken to be 64 bits wide, so that no product of a record width *)
(* and a count overflows.  A usize or a u32 is a pair of 16-bit halves     *)
(* [hi, lo], standing for hi * 65536 + lo: a count read from a file can    *)
(* be any 32-bit number.                                                   *)
(***************************************************************************)
EXTENDS Integers, Sequences, FiniteSets, TLC

VARIABLES kind, v, bytes, prior, wres, rres, rprev, edit, pc

vars == <<kind, v, bytes, prior, wres, rres, rprev, edit, pc>>

(***************************************************************************)
(* Program constants.                                                      *)
(***************************************************************************)
HeaderLen == 16
JouN == 19
JouSN == 20
TrnN == 25
TrnSN == 26
WtbN == 60
WtbS == 68
WtdN == 96
WtdS == 104
WtbBoard == 8
WtdBoard == 10
Nul == 0
Sentinel == 48
U8Range == 256
U16Range == 65536

(***************************************************************************)
(* Bounds of the model.                                                    *)
(***************************************************************************)
MaxRecords == 2

(***************************************************************************)
(* Helpers on byte sequences.                                              *)
(***************************************************************************)
At(b, i) == b[i + 1]

Fill(n, x) == [i \in 1..n |-> x]

RECURSIVE Flatten(_)
Flatten(chunks) ==
    IF chunks = <<>> THEN <<>> ELSE Head(chunks) \o Flatten(Tail(chunks))

\* Mutant: the two bytes taken in big-endian order.
U16FromBe(b) == b[2] + U8Range * b[1]

U16FromLe(b) == b[1] + U8Range * b[2]

U32FromLe(b) ==
    [lo |-> b[1] + U8Range * b[2], hi |-> b[3] + U8Range * b[4]]

\* Mutant: the two bytes given in big-endian order.
U16ToBe(x) == <<(x \div U8Range) % U8Range, x % U8Range>>

U16ToLe(x) == <<x % U8Range, (x \div U8Range) % U8Range>>

U32ToLe(x) ==
    << x.lo % U8Range, (x.lo \div U8Range) % U8Range,
       x.hi % U8Range, (x.hi \div U8Range) % U8Range >>

\* The usize that a length of the model is.
Usize(n) == [lo |-> n % U16Range, hi |-> n \div U16Range]

\* `as u16` and `as u32` of a length: the low 16 and the low 32 bits.
AsU16(n) == n % U16Range

AsU32(n) == [lo |-> n % U16Range, hi |-> (n \div U16Range) % U16Range]

\* `as usize` of a u16 and of a u32: the same number.
U16AsUsize(c) == [lo |-> c, hi |-> 0]

U32AsUsize(c) == [lo |-> c.lo, hi |-> c.hi]

\* len == N * count for a usize count, decided without forming the product.
LenIsProduct(len, N, count) == len % N = 0 /\ Usize(len \div N) = count

None == [some |-> FALSE]

(***************************************************************************)
(* slice.rs                                                                *)
(***************************************************************************)
split(b, N) ==
    IF Len(b) >= N
    THEN [some |-> TRUE, array |-> SubSeq(b, 1, N),
          remainder |-> SubSeq(b, N + 1, Len(b))]
    ELSE None

split_mut(b, N) ==
    IF Len(b) >= N
    THEN [some |-> TRUE, array |-> SubSeq(b, 1, N),
          remainder |-> SubSeq(b, N + 1, Len(b))]
    ELSE None

as_array(b, N) ==
    IF Len(b) = N THEN [some |-> TRUE, array |-> b] ELSE None

as_array_mut(b, N) ==
    IF Len(b) = N THEN [some |-> TRUE, array |-> b] ELSE None

\* Mutant: a buffer longer than the records is accepted, its tail dropped.
as_chunks_prefix(b, N, count) ==
    IF count.hi = 0 /\ Len(b) >= N * count.lo
    THEN [some |-> TRUE,
          chunks |-> [k \in 1..count.lo |->
                         SubSeq(b, (k - 1) * N + 1, k * N)]]
    ELSE None

as_chunks(b, N, count) ==
    IF LenIsProduct(Len(b), N, count)
    THEN [some |-> TRUE,
          chunks |-> [k \in 1..(Len(b) \div N) |->
                         SubSeq(b, (k - 1) * N + 1, k * N)]]
    ELSE None

\* Mutant: a buffer longer than the records is accepted, its tail dropped.
as_chunks_mut_prefix(b, N, count) ==
    IF count.hi = 0 /\ Len(b) >= N * count.lo
    THEN [some |-> TRUE,
          chunks |-> [k \in 1..count.lo |->
                         SubSeq(b, (k - 1) * N + 1, k * N)]]
    ELSE None

as_chunks_mut(b, N, count) ==
    IF LenIsProduct(Len(b), N, count)
    THEN [some |-> TRUE,
          chunks |-> [k \in 1..(Len(b) \div N) |->
                         SubSeq(b, (k - 1) * N + 1, k * N)]]
    ELSE None

(***************************************************************************)
(* lib.rs: the shared 16-byte header.                                      *)
(***************************************************************************)
read_header(b) ==
    [ created_centry |-> At(b, 0),
      created_year   |-> At(b, 1),
      created_month  |-> At(b, 2),
      created_day    |-> At(b, 3),
      n1        |-> U32FromLe(as_array(SubSeq(b, 5, 8), 4).array),
      n2        |-> U16FromLe(as_array(SubSeq(b, 9, 10), 2).array),
      game_year |-> U16FromLe(as_array(SubSeq(b, 11, 12), 2).array),
      p1 |-> At(b, 12),
      p2 |-> At(b, 13),
      p3 |-> At(b, 14) ]

\* Bytes 0..14 are assigned; byte 15 is not touched.
write_header(b, created_centry, created_year, created_month, created_day, n1, n2, game_year, p1, p2, p3) ==
    <<created_centry, created_year, created_month, created_day>>
        \o as_array_mut(U32ToLe(n1), 4).array
        \o as_array_mut(U16ToLe(n2), 2).array
        \o as_array_mut(U16ToLe(game_year), 2).array
        \o <<p1, p2, p3>>
        \o <<At(b, 15)>>

ReadError == [ok |-> FALSE]

read_names_header(b) ==
    LET h == read_header(b) IN
    IF h.n1 # AsU32(0) \/ h.game_year # 0 \/ h.p1 # 0 \/ h.p2 # 0
    THEN ReadError
    ELSE [ok |-> TRUE,
          created_centry |-> h.created_centry,
          created_year   |-> h.created_year,
          created_month  |-> h.created_month,
          created_day    |-> h.created_day,
          number_of_names |-> h.n2]

write_names_header(b, created_centry, created_year, created_month, created_day, number_of_names) ==
    write_header(b, created_centry, created_year, created_month, created_day,
                 AsU32(0), number_of_names, 0, 0, 0, 0)

\* Mutant: the game-type byte is not looked at.
read_games_header_any_type(b) ==
    LET h == read_header(b) IN
    IF h.n2 # 0
    THEN ReadError
    ELSE [ok |-> TRUE,
          created_centry |-> h.created_centry,
          created_year   |-> h.created_year,
          created_month  |-> h.created_month,
          created_day    |-> h.created_day,
          number_of_games |-> h.n1,
          year            |-> h.game_year,
          size_of_board   |-> h.p1,
          calculation_depth |-> h.p3]

read_games_header(b) ==
    LET h == read_header(b) IN
    IF h.n2 # 0 \/ h.p2 # 0
    THEN ReadError
    ELSE [ok |-> TRUE,
          created_centry |-> h.created_centry,
          created_year   |-> h.created_year,
          created_month  |-> h.created_month,
          created_day    |-> h.created_day,
          number_of_games |-> h.n1,
          year            |-> h.game_year,
          size_of_board   |-> h.p1,
          calculation_depth |-> h.p3]

write_games_header(b, created_centry, created_year, created_month, created_day, number_of_games, year, size_of_board, calculation_depth) ==
    write_header(b, created_centry, created_year, created_month, created_day,
                 number_of_games, 0, year, size_of_board, 0,
                 calculation_depth)

(***************************************************************************)
(* lib.rs: name records.                                                   *)
(***************************************************************************)
\* Mutant: the name ends at the first byte 0x30.
from_bytes_until_sentinel(chunk) ==
    IF \E i \in 1..Len(chunk) : chunk[i] = Sentinel
    THEN LET first == CHOOSE i \in 1..Len(chunk) :
                          /\ chunk[i] = Sentinel
                          /\ \A j \in 1..(i - 1) : chunk[j] # Sentinel
         IN  [ok |-> TRUE, to_bytes |-> SubSeq(chunk, 1, first - 1)]
    ELSE [ok |-> FALSE]

\* CStr::from_bytes_until_nul(chunk).to_bytes(): the bytes before the first
\* byte equal to 0, an error when the chunk holds no such byte.
from_bytes_until_nul(chunk) ==
    IF \E i \in 1..Len(chunk) : chunk[i] = Nul
    THEN LET first == CHOOSE i \in 1..Len(chunk) :
                          /\ chunk[i] = Nul
                          /\ \A j \in 1..(i - 1) : chunk[j] # Nul
         IN  [ok |-> TRUE, to_bytes |-> SubSeq(chunk, 1, first - 1)]
    ELSE [ok |-> FALSE]

\* HeaplessVec::<u8, N>::from_slice: an error beyond the capacity N.
from_slice(s, N) ==
    IF Len(s) <= N THEN [ok |-> TRUE, vec |-> s] ELSE [ok |-> FALSE]

read_name(chunk, N) ==
    LET c == from_bytes_until_nul(chunk) IN
    IF ~c.ok THEN [ok |-> FALSE] ELSE from_slice(c.to_bytes, N)

read_names(b, count, N, SN) ==
    LET chunks == as_chunks(b, SN, U16AsUsize(count)) IN
    IF ~chunks.some THEN ReadError
    ELSE LET n == Len(chunks.chunks)
             each == [k \in 1..n |-> read_name(chunks.chunks[k], N)]
         IN  IF \E k \in 1..n : ~each[k].ok
             THEN ReadError
             ELSE [ok |-> TRUE, result |-> [k \in 1..n |-> each[k].vec]]

\* Mutant: the sentinel stored one byte further.
NameEndPlusOne(name) == Len(name) + 1

\* The index of chunk[name.len()], where the sentinel is stored.
NameEnd(name) == Len(name)

\* chunk[0..name.len()].copy_from_slice(name); chunk[name.len()] = b'0';
write_name(chunk, name) ==
    [i \in 1..Len(chunk) |->
        IF i <= Len(name) THEN name[i]
        ELSE IF i = NameEnd(name) + 1 THEN Sentinel
        ELSE chunk[i]]

\* Mutant: the number of names is not compared with the count.
write_names_unchecked(b, names, count, N, SN) ==
    LET chunks == as_chunks_mut(b, SN, Usize(Len(names))) IN
    IF ~chunks.some
    THEN [res |-> "InvalidInput", bytes |-> b]
    ELSE [res |-> "Ok",
          bytes |-> Flatten([k \in 1..Len(names) |->
                                write_name(chunks.chunks[k], names[k])])]

\* The result and the records section after the call.
write_names(b, names, count, N, SN) ==
    IF Usize(Len(names)) # U16AsUsize(count)
    THEN [res |-> "TooManyElements", bytes |-> b]
    ELSE LET chunks == as_chunks_mut(b, SN, Usize(Len(names))) IN
         IF ~chunks.some
         THEN [res |-> "InvalidInput", bytes |-> b]
         ELSE IF Len(chunks.chunks) # Len(names)
         THEN [res |-> "InvalidInput", bytes |-> b]
         ELSE [res |-> "Ok",
               bytes |-> Flatten([k \in 1..Len(names) |->
                                     write_name(chunks.chunks[k], names[k])])]

(***************************************************************************)
(* lib.rs: game records.                                                   *)
(***************************************************************************)
read_game(chunk, N) ==
    LET moves == as_array(SubSeq(chunk, 9, Len(chunk)), N) IN
    IF ~moves.some THEN [ok |-> FALSE]
    ELSE [ok |-> TRUE,
          game |-> [ tournament   |-> U16FromLe(as_array(SubSeq(chunk, 1, 2), 2).array),
                     black_player |-> U16FromLe(as_array(SubSeq(chunk, 3, 4), 2).array),
                     white_player |-> U16FromLe(as_array(SubSeq(chunk, 5, 6), 2).array),
                     score             |-> At(chunk, 6),
                     theoretical_score |-> At(chunk, 7),
                     moves |-> moves.array ]]

read_games(b, count, N, S) ==
    LET chunks == as_chunks(b, S, U32AsUsize(count)) IN
    IF ~chunks.some THEN ReadError
    ELSE LET n == Len(chunks.chunks)
             each == [k \in 1..n |-> read_game(chunks.chunks[k], N)]
         IN  IF \E k \in 1..n : ~each[k].ok
             THEN ReadError
             ELSE [ok |-> TRUE, result |-> [k \in 1..n |-> each[k].game]]

write_game(chunk, game, N) ==
    LET moves == as_array_mut(SubSeq(chunk, 9, Len(chunk)), N) IN
    LET head == U16ToLe(game.tournament) \o U16ToLe(game.black_player)
                   \o U16ToLe(game.white_player)
                   \o <<game.score, game.theoretical_score>> IN
    IF ~moves.some
    THEN [ok |-> FALSE, chunk |-> head \o SubSeq(chunk, 9, Len(chunk))]
    ELSE [ok |-> TRUE, chunk |-> head \o game.moves]

\* The chunks are written in order; the first chunk whose move window is not
\* N bytes wide ends the loop with InvalidInput, the earlier ones written.
write_games(b, games, count, N, S) ==
    IF Usize(Len(games)) # U32AsUsize(count)
    THEN [res |-> "TooManyElements", bytes |-> b]
    ELSE LET chunks == as_chunks_mut(b, S, Usize(Len(games))) IN
         IF ~chunks.some
         THEN [res |-> "InvalidInput", bytes |-> b]
         ELSE IF Len(chunks.chunks) # Len(games)
         THEN [res |-> "InvalidInput", bytes |-> b]
         ELSE LET each == [k \in 1..Len(games) |->
                              write_game(chunks.chunks[k], games[k], N)]
                  bad  == {k \in 1..Len(games) : ~each[k].ok}
              IN  IF bad = {}
                  THEN [res |-> "Ok",
                        bytes |-> Flatten([k \in 1..Len(games) |-> each[k].chunk])]
                  ELSE LET stop == CHOOSE k \in bad : \A j \in bad : k <= j IN
                       [res |-> "InvalidInput",
                        bytes |-> Flatten([k \in 1..Len(games) |->
                                     IF k <= stop THEN each[k].chunk
                                     ELSE chunks.chunks[k]])]

(***************************************************************************)
(* lib.rs: the four file kinds.  A write returns its result and the buffer *)
(* as the call leaves it.                                                  *)
(***************************************************************************)
JouSize(self) == HeaderLen + JouSN * Len(self.players)

TrnSize(self) == HeaderLen + TrnSN * Len(self.tournaments)

WtbSize(self) == HeaderLen + WtbS * Len(self.games)

WtdSize(self) == HeaderLen + WtdS * Len(self.games)

JouRead(b) ==
    LET s == split(b, HeaderLen) IN
    IF ~s.some THEN ReadError
    ELSE LET h == read_names_header(s.array) IN
         IF ~h.ok THEN ReadError
         ELSE LET r == read_names(s.remainder, h.number_of_names, JouN, JouSN) IN
              IF ~r.ok THEN ReadError
              ELSE [ok |-> TRUE,
                    val |-> [ created_centry |-> h.created_centry,
                              created_year   |-> h.created_year,
                              created_month  |-> h.created_month,
                              created_day    |-> h.created_day,
                              players        |-> r.result ]]

JouWrite(self, b) ==
    LET s == split_mut(b, HeaderLen) IN
    IF ~s.some THEN [res |-> "InvalidInput", bytes |-> b]
    ELSE LET number_of_players == AsU16(Len(self.players))
             header == write_names_header(s.array, self.created_centry,
                           self.created_year, self.created_month,
                           self.created_day, number_of_players)
             w == write_names(s.remainder, self.players, number_of_players,
                              JouN, JouSN)
         IN  [res |-> w.res, bytes |-> header \o w.bytes]

TrnRead(b) ==
    LET s == split(b, HeaderLen) IN
    IF ~s.some THEN ReadError
    ELSE LET h == read_names_header(s.array) IN
         IF ~h.ok THEN ReadError
         ELSE LET r == read_names(s.remainder, h.number_of_names, TrnN, TrnSN) IN
              IF ~r.ok THEN ReadError
              ELSE [ok |-> TRUE,
                    val |-> [ created_centry |-> h.created_centry,
                              created_year   |-> h.created_year,
                              created_month  |-> h.created_month,
                              created_day    |-> h.created_day,
                              tournaments    |-> r.result ]]

TrnWrite(self, b) ==
    LET s == split_mut(b, HeaderLen) IN
    IF ~s.some THEN [res |-> "InvalidInput", bytes |-> b]
    ELSE LET number_of_tournaments == AsU16(Len(self.tournaments))
             header == write_names_header(s.array, self.created_centry,
                           self.created_year, self.created_month,
                           self.created_day, number_of_tournaments)
             w == write_names(s.remainder, self.tournaments,
                              number_of_tournaments, TrnN, TrnSN)
         IN  [res |-> w.res, bytes |-> header \o w.bytes]

\* Mutant: the legacy board size 0 is refused.
WtbBoardOkOnly8(size_of_board) == size_of_board = WtbBoard

\* if size_of_board != 0 && size_of_board != 8 { return Err(ReadError) }
WtbBoardOk(size_of_board) == size_of_board = 0 \/ size_of_board = WtbBoard

\* if size_of_board != 10 { return Err(ReadError) }
WtdBoardOk(size_of_board) == size_of_board = WtdBoard

WtbRead(b) ==
    LET s == split(b, HeaderLen) IN
    IF ~s.some THEN ReadError
    ELSE LET h == read_games_header(s.array) IN
         IF ~h.ok THEN ReadError
         ELSE IF ~WtbBoardOk(h.size_of_board) THEN ReadError
         ELSE LET r == read_games(s.remainder, h.number_of_games, WtbN, WtbS) IN
              IF ~r.ok THEN ReadError
              ELSE [ok |-> TRUE,
                    val |-> [ created_centry |-> h.created_centry,
                              created_year   |-> h.created_year,
                              created_month  |-> h.created_month,
                              created_day    |-> h.created_day,
                              year              |-> h.year,
                              calculation_depth |-> h.calculation_depth,
                              games             |-> r.result ]]

WtbWrite(self, b) ==
    LET s == split_mut(b, HeaderLen) IN
    IF ~s.some THEN [res |-> "InvalidInput", bytes |-> b]
    ELSE LET number_of_games == AsU32(Len(self.games))
             header == write_games_header(s.array, self.created_centry,
                           self.created_year, self.created_month,
                           self.created_day, number_of_games, self.year,
                           WtbBoard, self.calculation_depth)
             w == write_games(s.remainder, self.games, number_of_games,
                              WtbN, WtbS)
         IN  [res |-> w.res, bytes |-> header \o w.bytes]

WtdRead(b) ==
    LET s == split(b, HeaderLen) IN
    IF ~s.some THEN ReadError
    ELSE LET h == read_games_header(s.array) IN
         IF ~h.ok THEN ReadError
         ELSE IF ~WtdBoardOk(h.size_of_board) THEN ReadError
         ELSE LET r == read_games(s.remainder, h.number_of_games, WtdN, WtdS) IN
              IF ~r.ok THEN ReadError
              ELSE [ok |-> TRUE,
                    val |-> [ created_centry |-> h.created_centry,
                              created_year   |-> h.created_year,
                              created_month  |-> h.created_month,
                              created_day    |-> h.created_day,
                              year              |-> h.year,
                              calculation_depth |-> h.calculation_depth,
                              games             |-> r.result ]]

WtdWrite(self, b) ==
    LET s == split_mut(b, HeaderLen) IN
    IF ~s.some THEN [res |-> "InvalidInput", bytes |-> b]
    ELSE LET number_of_games == AsU32(Len(self.games))
             header == write_games_header(s.array, self.created_centry,
                           self.created_year, self.created_month,
                           self.created_day, number_of_games, self.year,
                           WtdBoard, self.calculation_depth)
             w == write_games(s.remainder, self.games, number_of_games,
                              WtdN, WtdS)
         IN  [res |-> w.res, bytes |-> header \o w.bytes]

(***************************************************************************)
(* The values and buffers a caller hands to the codec.                     *)
(***************************************************************************)
NameKinds == {"Jou", "Trn"}

GameKinds == {"Wtb", "Wtd"}

Capacity(k) == IF k = "Jou" THEN JouN ELSE IF k = "Trn" THEN TrnN
               ELSE IF k = "Wtb" THEN WtbN ELSE WtdN

Width(k) == IF k = "Jou" THEN JouSN ELSE IF k = "Trn" THEN TrnSN
            ELSE IF k = "Wtb" THEN WtbS ELSE WtdS

Records(k, val) == IF k = "Jou" THEN val.players
                   ELSE IF k = "Trn" THEN val.tournaments
                   ELSE val.games

Size(k, val) == IF k = "Jou" THEN JouSize(val)
                ELSE IF k = "Trn" THEN TrnSize(val)
                ELSE IF k = "Wtb" THEN WtbSize(val) ELSE WtdSize(val)

Read(k, b) == IF k = "Jou" THEN JouRead(b)
              ELSE IF k = "Trn" THEN TrnRead(b)
              ELSE IF k = "Wtb" THEN WtbRead(b) ELSE WtdRead(b)

Write(k, val, b) == IF k = "Jou" THEN JouWrite(val, b)
                    ELSE IF k = "Trn" THEN TrnWrite(val, b)
                    ELSE IF k = "Wtb" THEN WtbWrite(val, b) ELSE WtdWrite(val, b)

(***************************************************************************)
(* Panics: an index or a range outside the slice it is applied to, or an   *)
(* unwrap of None.  Each operator follows the control flow of its function *)
(* and tells whether the call panics instead of returning.                 *)
(***************************************************************************)
InBounds(i, b) == 0 <= i /\ i < Len(b)

\* bytes[lo..=hi] and the unwrap of as_array::<n> on it.
RangePanics(b, lo, hi, n) ==
    \/ ~InBounds(hi, b)
    \/ ~as_array(SubSeq(b, lo + 1, hi + 1), n).some

read_header_panics(b) ==
    \/ \E i \in {0, 1, 2, 3, 12, 13, 14} : ~InBounds(i, b)
    \/ RangePanics(b, 4, 7, 4)
    \/ RangePanics(b, 8, 9, 2)
    \/ RangePanics(b, 10, 11, 2)

write_header_panics(b) ==
    \/ \E i \in {0, 1, 2, 3, 12, 13, 14} : ~InBounds(i, b)
    \/ RangePanics(b, 4, 7, 4)
    \/ RangePanics(b, 8, 9, 2)
    \/ RangePanics(b, 10, 11, 2)

\* chunk[0..name.len()] and chunk[name.len()].
write_name_panics(chunk, name) ==
    \/ Len(name) > Len(chunk)
    \/ ~InBounds(NameEnd(name), chunk)

write_names_panics(b, names, count, N, SN) ==
    /\ Usize(Len(names)) = U16AsUsize(count)
    /\ LET chunks == as_chunks_mut(b, SN, Usize(Len(names))) IN
        /\ chunks.some
        /\ Len(chunks.chunks) = Len(names)
        /\ \E k \in 1..Len(names) :
               write_name_panics(chunks.chunks[k], names[k])

\* chunk[0..=1], chunk[2..=3], chunk[4..=5], chunk[6], chunk[7], chunk[8..].
game_chunk_panics(chunk) ==
    \/ RangePanics(chunk, 0, 1, 2)
    \/ RangePanics(chunk, 2, 3, 2)
    \/ RangePanics(chunk, 4, 5, 2)
    \/ ~InBounds(6, chunk)
    \/ ~InBounds(7, chunk)
    \/ 8 > Len(chunk)

\* The loop ends at the first chunk that returns an error.
read_games_panics(b, count, N, S) ==
    LET chunks == as_chunks(b, S, U32AsUsize(count)) IN
    /\ chunks.some
    /\ \E k \in 1..Len(chunks.chunks) :
           /\ game_chunk_panics(chunks.chunks[k])
           /\ \A j \in 1..(k - 1) : read_game(chunks.chunks[j], N).ok

write_games_panics(b, games, count, N, S) ==
    /\ Usize(Len(games)) = U32AsUsize(count)
    /\ LET chunks == as_chunks_mut(b, S, Usize(Len(games))) IN
        /\ chunks.some
        /\ Len(chunks.chunks) = Len(games)
        /\ \E k \in 1..Len(games) :
               /\ game_chunk_panics(chunks.chunks[k])
               /\ \A j \in 1..(k - 1) :
                      write_game(chunks.chunks[j], games[j], N).ok

\* read of a kind: the header, then the games (reading names uses no index).
ReadPanics(k, b) ==
    LET s == split(b, HeaderLen) IN
    /\ s.some
    /\ \/ read_header_panics(s.array)
       \/ /\ k \in GameKinds
          /\ LET h == read_games_header(s.array) IN
              /\ h.ok
              /\ IF k = "Wtb" THEN WtbBoardOk(h.size_of_board)
                              ELSE WtdBoardOk(h.size_of_board)
              /\ read_games_panics(s.remainder, h.number_of_games,
                                   Capacity(k), Width(k))

\* write of a kind: the header, then the records.
WritePanics(k, val, b) ==
    LET s == split_mut(b, HeaderLen) IN
    /\ s.some
    /\ \/ write_header_panics(s.array)
       \/ IF k \in NameKinds
          THEN write_names_panics(s.remainder, Records(k, val),
                                  AsU16(Len(Records(k, val))),
                                  Capacity(k), Width(k))
          ELSE write_games_panics(s.remainder, Records(k, val),
                                  AsU32(Len(Records(k, val))),
                                  Capacity(k), Width(k))

\* Sequences of length 0..n over the set S.
RECURSIVE SeqsUpTo(_, _)
SeqsUpTo(S, n) ==
    IF n = 0 THEN {<<>>}
    ELSE LET shorter == SeqsUpTo(S, n - 1) IN
         shorter \cup {Append(s, x) : s \in {t \in shorter : Len(t) = n - 1}, x \in S}

\* Names of a HeaplessVec<u8, N>: the empty name, a short name that holds
\* the byte 0x30, one that holds the byte 0, and a name of the full capacity.
NameSamples(N) == {<<>>, <<65, 48>>, <<65, 0, 66>>, Fill(N, 66)}

\* One more name than a u16 counts.
TooManyNames == Fill(U16Range, <<>>)

GameSamples(N) ==
    { [ tournament |-> 0, black_player |-> 0, white_player |-> 0,
        score |-> 0, theoretical_score |-> 0, moves |-> Fill(N, 0) ],
      [ tournament |-> 258, black_player |-> 772, white_player |-> 65535,
        score |-> 33, theoretical_score |-> 64, moves |-> [i \in 1..N |-> i] ] }

CreatedSamples == { <<0, 0, 0, 0>>, <<20, 5, 6, 21>> }

GameHeaderSamples ==
    { [created |-> <<0, 0, 0, 0>>, year |-> 0, calculation_depth |-> 0],
      [created |-> <<20, 5, 6, 21>>, year |-> 1977, calculation_depth |-> 22],
      [created |-> <<255, 255, 255, 255>>, year |-> 65535, calculation_depth |-> 255] }

JouValues ==
    { [ created_centry |-> c[1], created_year |-> c[2], created_month |-> c[3],
        created_day |-> c[4], players |-> n ] :
      c \in CreatedSamples,
      n \in SeqsUpTo(NameSamples(JouN), MaxRecords) \cup {TooManyNames} }

TrnValues ==
    { [ created_centry |-> c[1], created_year |-> c[2], created_month |-> c[3],
        created_day |-> c[4], tournaments |-> n ] :
      c \in CreatedSamples,
      n \in SeqsUpTo(NameSamples(TrnN), MaxRecords) \cup {TooManyNames} }

GameValues(N) ==
    { [ created_centry |-> h.created[1], created_year |-> h.created[2],
        created_month |-> h.created[3], created_day |-> h.created[4],
        year |-> h.year, calculation_depth |-> h.calculation_depth,
        games |-> g ] :
      h \in GameHeaderSamples, g \in SeqsUpTo(GameSamples(N), MaxRecords) }

Values(k) == IF k = "Jou" THEN JouValues
             ELSE IF k = "Trn" THEN TrnValues
             ELSE GameValues(Capacity(k))

\* The destination is of the exact size, one byte short or long, or shorter
\* than a header; for a record sequence too long for its count field only
\* short destinations are drawn.
BufferLens(k, val) ==
    IF Len(Records(k, val)) >= U16Range
    THEN {HeaderLen - 1, HeaderLen, HeaderLen + Width(k)}
    ELSE {HeaderLen - 1, Size(k, val) - 1, Size(k, val), Size(k, val) + 1}

\* A destination comes zero-filled, or holding 0xFF bytes for one length.
Buffers(k, val) ==
    {Fill(n, 0) : n \in BufferLens(k, val)}
        \cup {Fill(IF Len(Records(k, val)) >= U16Range
                   THEN HeaderLen ELSE Size(k, val), 255)}

\* The offsets a caller changes between two reads: the header and the ends
\* of the first record.
EditOffsets(k) == (0..(HeaderLen - 1))
                      \cup (HeaderLen..(HeaderLen + 3))
                      \cup {HeaderLen + Width(k) - 1}

EditBytes == {0, 1, 8, 10, 48, 255}

NoEdit == [op |-> "none", off |-> 0, old |-> 0, new |-> 0]

NoRead == [ok |-> FALSE, called |-> FALSE, panic |-> FALSE]

Called(r) == [x \in DOMAIN r \cup {"called", "panic"} |->
                 IF x = "called" THEN TRUE
                 ELSE IF x = "panic" THEN FALSE ELSE r[x]]

\* A read that panicked returned nothing.
ReadPanicked == [ok |-> FALSE, called |-> TRUE, panic |-> TRUE]

(***************************************************************************)
(* The state machine: a caller builds a value and a destination, writes,   *)
(* reads the buffer back, changes one byte or the length of the buffer,    *)
(* and reads again.  A buffer may also be read without being written.      *)
(***************************************************************************)
Init ==
    /\ kind \in NameKinds \cup GameKinds
    /\ v \in Values(kind)
    /\ bytes \in Buffers(kind, v)
    /\ prior = bytes
    /\ wres = "none"
    /\ rres = NoRead
    /\ rprev = NoRead
    /\ edit = NoEdit
    /\ pc = "init"

DoWrite(k) ==
    /\ pc = "init"
    /\ kind = k
    /\ IF WritePanics(k, v, bytes)
       THEN /\ wres' = "Panic"
            /\ bytes' = bytes
       ELSE LET w == Write(k, v, bytes) IN
            /\ wres' = w.res
            /\ bytes' = w.bytes
    /\ prior' = bytes
    /\ pc' = "written"
    /\ UNCHANGED <<kind, v, rres, rprev, edit>>

DoRead(k) ==
    /\ pc \in {"init", "written", "edited"}
    /\ kind = k
    /\ rres' = IF ReadPanics(k, bytes) THEN ReadPanicked
               ELSE Called(Read(k, bytes))
    /\ pc' = IF pc = "init" THEN "done"
             ELSE IF pc = "written" THEN "read" ELSE "reread"
    /\ UNCHANGED <<kind, v, bytes, prior, wres, rprev, edit>>

JouWriteCall == DoWrite("Jou")

TrnWriteCall == DoWrite("Trn")

WtbWriteCall == DoWrite("Wtb")

WtdWriteCall == DoWrite("Wtd")

JouReadCall == DoRead("Jou")

TrnReadCall == DoRead("Trn")

WtbReadCall == DoRead("Wtb")

WtdReadCall == DoRead("Wtd")

\* The caller stores one byte into the buffer it owns.
SetByte ==
    /\ pc = "read"
    /\ \E off \in EditOffsets(kind), x \in EditBytes :
        /\ off < Len(bytes)
        /\ At(bytes, off) # x
        /\ bytes' = [bytes EXCEPT ![off + 1] = x]
        /\ edit' = [op |-> "set", off |-> off, old |-> At(bytes, off), new |-> x]
    /\ rprev' = rres
    /\ rres' = NoRead
    /\ pc' = "edited"
    /\ UNCHANGED <<kind, v, prior, wres>>

\* The caller passes the buffer without its last byte.
DropLast ==
    /\ pc = "read"
    /\ Len(bytes) > 0
    /\ bytes' = SubSeq(bytes, 1, Len(bytes) - 1)
    /\ edit' = [op |-> "drop", off |-> Len(bytes) - 1,
                old |-> At(bytes, Len(bytes) - 1), new |-> 0]
    /\ rprev' = rres
    /\ rres' = NoRead
    /\ pc' = "edited"
    /\ UNCHANGED <<kind, v, prior, wres>>

\* The caller passes the buffer with one more byte after it.
AppendByte ==
    /\ pc = "read"
    /\ \E x \in EditBytes :
        /\ bytes' = Append(bytes, x)
        /\ edit' = [op |-> "append", off |-> Len(bytes), old |-> 0, new |-> x]
    /\ rprev' = rres
    /\ rres' = NoRead
    /\ pc' = "edited"
    /\ UNCHANGED <<kind, v, prior, wres>>

Next ==
    \/ JouWriteCall
    \/ TrnWriteCall
    \/ WtbWriteCall
    \/ WtdWriteCall
    \/ JouReadCall
    \/ TrnReadCall
    \/ WtbReadCall
    \/ WtdReadCall
    \/ SetByte
    \/ DropLast
    \/ AppendByte

Spec == Init /\ [][Next]_vars

(***************************************************************************)
(* Properties.  The helpers below read the buffer directly, byte by byte,  *)
(* and use none of the codec's operators.                                  *)
(***************************************************************************)
IsNameKind == kind \in NameKinds

IsGameKind == kind \in GameKinds

Zeroed(b) == \A i \in 1..Len(b) : b[i] = 0

\* The record slot k (from 1) of a buffer, for the kind's record width.
Slot(b, k) == SubSeq(b, HeaderLen + (k - 1) * Width(kind) + 1,
                        HeaderLen + k * Width(kind))

\* nm is what stands in the slot before the first byte equal to x.
EndsAtFirst(nm, slot, x) ==
    /\ Len(nm) < Len(slot)
    /\ \A j \in 1..Len(nm) : nm[j] = slot[j] /\ nm[j] # x
    /\ slot[Len(nm) + 1] = x

\* The count field of a header holds the number n: 16 bits at offset 8 for
\* a name file, 32 bits at offset 4 for a game file, little-endian.
CountFieldIs(b, n) ==
    IF IsNameKind
    THEN /\ n < 65536
         /\ At(b, 8) = n % 256
         /\ At(b, 9) = n \div 256
    ELSE /\ At(b, 4) = n % 256
         /\ At(b, 5) = (n \div 256) % 256
         /\ At(b, 6) = (n \div 65536) % 256
         /\ At(b, 7) = n \div 16777216

\* The buffer is a header followed by as many whole records as its count
\* field says.
ExactLength(b) ==
    /\ Len(b) >= HeaderLen
    /\ (Len(b) - HeaderLen) % Width(kind) = 0
    /\ CountFieldIs(b, (Len(b) - HeaderLen) \div Width(kind))

\* C1: a name file written into a zero-filled buffer of exactly size()
\* bytes is written with success and reads back as the value written.
C1_NameRoundTrip ==
    (/\ IsNameKind
     /\ pc = "read"
     /\ Len(Records(kind, v)) <= 65535
     /\ Len(prior) = Size(kind, v)
     /\ Zeroed(prior))
        => (wres = "Ok" /\ rres.ok /\ rres.val = v)

\* C2: a game file written into a buffer of exactly size() bytes, whatever
\* the buffer held, is written with success and reads back as the value
\* written, games in the same order.
C2_GameRoundTrip ==
    (/\ IsGameKind
     /\ pc = "read"
     /\ Len(prior) = Size(kind, v))
        => (wres = "Ok" /\ rres.ok /\ rres.val = v)

C2_Witness ==
    /\ kind = "Wtd"
    /\ pc = "read"
    /\ ~Zeroed(prior)
    /\ Len(v.games) = MaxRecords
    /\ v.games[1] # v.games[2]
    /\ v.year = 1977
    /\ rres.ok
    /\ rres.val = v

\* C3, as stated: a write into a buffer whose length is not size() fails
\* with InvalidInput, for every value.
C3_AsStated ==
    (pc = "written" /\ Len(prior) # Size(kind, v)) => wres = "InvalidInput"

\* C3, amended: a write into a buffer whose length is not size() never
\* returns Ok; it fails with InvalidInput when the number of records fits
\* the count field or the buffer is shorter than a header, and with
\* TooManyElements otherwise.
C3_WriteExactness ==
    (pc = "written" /\ Len(prior) # Size(kind, v))
        => /\ wres # "Ok"
           /\ wres = IF IsNameKind /\ Len(Records(kind, v)) > 65535
                        /\ Len(prior) >= HeaderLen
                     THEN "TooManyElements" ELSE "InvalidInput"

C3_Witness ==
    /\ pc = "written"
    /\ Len(Records(kind, v)) = MaxRecords
    /\ Len(prior) = Size(kind, v) + 1
    /\ wres = "InvalidInput"

\* C4: a read succeeds only on a buffer of 16 bytes plus exactly as many
\* records as the header's count field says, and returns that many records;
\* an accepted buffer with its last byte dropped, or with one more byte, is
\* rejected.
C4_ReadExactness ==
    /\ (rres.called /\ rres.ok)
           => /\ ExactLength(bytes)
              /\ Len(bytes) = HeaderLen
                     + Width(kind) * Len(Records(kind, rres.val))
    /\ (pc = "reread" /\ edit.op \in {"drop", "append"} /\ rprev.ok)
           => ~rres.ok

C4_Witness ==
    /\ pc = "reread"
    /\ edit.op = "drop"
    /\ rprev.ok
    /\ Len(Records(kind, rprev.val)) = MaxRecords
    /\ ~rres.ok

ReservedOffsets == IF IsNameKind THEN {4, 5, 6, 7, 10, 11, 12, 13}
                   ELSE {8, 9, 13}

IgnoredOffsets == IF IsNameKind THEN {14, 15} ELSE {15}

\* C6: storing a nonzero byte at a reserved header offset of a buffer that
\* read accepts makes read fail; storing any byte at offset 14 of a name
\* file or at offset 15 of any file leaves the outcome of read as it was.
C6_ReservedFields ==
    (pc = "reread" /\ edit.op = "set")
        => /\ (rprev.ok /\ edit.off \in ReservedOffsets /\ edit.new # 0)
                  => ~rres.ok
           /\ (edit.off \in IgnoredOffsets) => (rres.ok = rprev.ok)

C6_Witness ==
    /\ pc = "reread"
    /\ kind = "Trn"
    /\ edit.op = "set"
    /\ edit.off = 13
    /\ edit.new # 0
    /\ rprev.ok
    /\ Len(rprev.val.tournaments) = MaxRecords
    /\ ~rres.ok

\* C7: Wtb::read accepts the board-size byte 0 or 8, with the same value
\* returned for both, and no other byte; Wtd::read accepts the board-size
\* byte 10 and no other.
C7_BoardSize ==
    /\ (IsGameKind /\ rres.called /\ rres.ok)
           => At(bytes, 12) \in (IF kind = "Wtb" THEN {0, 8} ELSE {10})
    /\ (/\ IsGameKind
        /\ pc = "reread"
        /\ edit.op = "set"
        /\ edit.off = 12
        /\ rprev.ok)
           => IF kind = "Wtb" /\ edit.new \in {0, 8}
              THEN rres = rprev
              ELSE ~rres.ok

C7_Witness ==
    /\ kind = "Wtb"
    /\ pc = "reread"
    /\ edit.op = "set"
    /\ edit.off = 12
    /\ edit.old = 8
    /\ edit.new = 0
    /\ rprev.ok
    /\ Len(rprev.val.games) = MaxRecords
    /\ rres.ok
    /\ rres = rprev

\* C8: after a successful write the padding byte at offset 15 is 0 and, in
\* a name file, every byte of a slot after the sentinel is 0, so that the
\* buffer is the one a write into a zero-filled buffer gives.
C8_WriteDetermined ==
    (pc = "written" /\ wres = "Ok")
        => /\ At(bytes, 15) = 0
           /\ IsNameKind =>
                  \A k \in 1..Len(Records(kind, v)) :
                      \A i \in (Len(Records(kind, v)[k]) + 2)..Width(kind) :
                          Slot(bytes, k)[i] = 0
           /\ bytes = Write(kind, v, Fill(Len(prior), 0)).bytes

C10_HeaderDecoding ==
    /\ (IsGameKind /\ rres.called /\ rres.ok)
           => /\ rres.val.year = At(bytes, 10) + 256 * At(bytes, 11)
              /\ rres.val.created_centry = At(bytes, 0)
              /\ rres.val.created_year = At(bytes, 1)
              /\ rres.val.created_month = At(bytes, 2)
              /\ rres.val.created_day = At(bytes, 3)
              /\ rres.val.calculation_depth = At(bytes, 14)
    /\ (IsGameKind /\ pc = "read" /\ rres.ok) => rres.val.year = v.year

C10_Witness ==
    /\ kind = "Wtb"
    /\ pc = "reread"
    /\ edit.op = "set"
    /\ edit.off = 14
    /\ edit.old = 22
    /\ edit.new = 0
    /\ rres.ok
    /\ rres.val.calculation_depth = 0
    /\ rres.val.year = 1977
    /\ rres.val.created_centry = 20

\* C11: a read of any buffer returns Ok or ReadError and a write of any
\* value into any buffer returns Ok or a WriteError: no index or unwrap of
\* the codec panics.  After a successful write of a name file the sentinel
\* of every name stands inside the name's slot.
C11_NoPanic ==
    /\ wres \in {"none", "Ok", "InvalidInput", "TooManyElements"}
    /\ ~rres.panic
    /\ (pc = "written" /\ wres = "Ok" /\ IsNameKind)
           => \A k \in 1..Len(Records(kind, v)) :
                  /\ Len(Records(kind, v)[k]) < Width(kind)
                  /\ Slot(bytes, k)[Len(Records(kind, v)[k]) + 1] = 48

C11_Witness ==
    /\ kind = "Trn"
    /\ pc = "written"
    /\ wres = "Ok"
    /\ Len(v.tournaments) = MaxRecords
    /\ Len(v.tournaments[MaxRecords]) = TrnN
    /\ At(bytes, Len(bytes) - 1) = 48

\* C12: a write that returns an error leaves every byte of the destination
\* as it was before the call.
C12_NoPartialMutation ==
    (pc = "written" /\ wres \in {"InvalidInput", "TooManyElements"})
        => bytes = prior

====
